---- MODULE Spec2Model ----
(***************************************************************************)
(* Model of the storage abstraction layer of @eldrforge/shared (the        *)
(* Utility object returned by create()) over a host filesystem.            *)
(*                                                                         *)
(* A path string is a sequence of one-character tokens, so that the        *)
(* splitting and re-joining done by ensureDirectory is computed and not    *)
(* assumed.  The host filesystem is a tree of entries addressed by nodes   *)
(* (sequences of segment names counted from the root).                     *)
(*                                                                         *)
(* Specifications: Spec (one awaited call of the layer after another),     *)
(* SpecForEach (one run of forEachFileIn), SpecConc (two concurrent calls  *)
(* of deleteFile or ensureDirectory on one path), SpecStdin and            *)
(* SpecStdinTimer (one call of readStdin), SpecPrompt (one call of         *)
(* promptConfirmation), SpecErrors (construction of command errors),       *)
(* SpecValidate (calls of the runtime validation helpers).                 *)
(***************************************************************************)
EXTENDS Integers, Sequences, FiniteSets, TLC

\* ------------------------------------------------------------------ bounds
\* most segments in a path string handed to an operation
MaxSegs == 2
\* most entries (besides the root) the modelled filesystem holds
MaxEntries == 2

\* ------------------------------------------------------------ path strings
Slash == "/"
SegA == <<"a">>
SegB == <<"b">>
Names == {SegA, SegB}

RECURSIVE SplitAcc(_, _, _)
SplitAcc(s, cur, acc) ==
    IF s = <<>> THEN Append(acc, cur)
    ELSE IF Head(s) = Slash THEN SplitAcc(Tail(s), <<>>, Append(acc, cur))
    ELSE SplitAcc(Tail(s), Append(cur, Head(s)), acc)

\* String.prototype.split('/')
Split(s) == SplitAcc(s, <<>>, <<>>)

\* path.split('/').filter(p => p !== '')
PathParts(s) == SelectSeq(Split(s), LAMBDA p : p # <<>>)

\* currentPath = currentPath ? `${currentPath}/${part}` : part
NextCurrentPath(currentPath, part) ==
    IF currentPath # <<>> THEN currentPath \o <<Slash>> \o part ELSE part

IsAbsolute(s) == s # <<>> /\ Head(s) = Slash

\* the host's resolution of a path string to a node, relative ones against
\* the working directory of the process
Resolve(wd, s) == IF IsAbsolute(s) THEN PathParts(s) ELSE wd \o PathParts(s)

RECURSIVE JoinSegs(_)
JoinSegs(parts) ==
    IF parts = <<>> THEN <<>>
    ELSE IF Len(parts) = 1 THEN Head(parts)
    ELSE Head(parts) \o <<Slash>> \o JoinSegs(Tail(parts))

Render(abs, parts) == IF abs THEN <<Slash>> \o JoinSegs(parts) ELSE JoinSegs(parts)

SegSeqs(lo, hi) == UNION { [1..k -> Names] : k \in lo..hi }

\* the path strings the operations are called with
PathStrings == { Render(abs, parts) : abs \in BOOLEAN, parts \in SegSeqs(1, MaxSegs) }
\* the new names rename is called with: an entry of the root or of the
\* working directory
RenameTargets == { Render(abs, <<s>>) : abs \in BOOLEAN, s \in Names }

\* the data chunks the stream may deliver to one call of readStdin, and the
\* input chunks that may arrive during one call of promptConfirmation
MaxChunks == 2
MaxInputs == 3

\* ------------------------------------------------------------- filesystem
Root == <<>>
WorkDirs == {Root, <<SegB>>}
Nodes == SegSeqs(0, MaxSegs + 1)

\* Text is a sequence of UTF-16 code units: "x" and "y" are ASCII letters,
\* "H" a high and "L" a low surrogate, "R" is U+FFFD.  The bytes of a file
\* are a sequence of encoded scalars: "x", "y", "HL" (the four bytes of a
\* surrogate pair), "FFFD" (EF BF BD).
NoData == <<>>
Surrogates == {"H", "L"}

\* text to bytes under 'utf8': an unpaired surrogate is written as U+FFFD
RECURSIVE EncodeUtf8(_)
EncodeUtf8(t) ==
    IF t = <<>> THEN <<>>
    ELSE IF Len(t) >= 2 /\ t[1] = "H" /\ t[2] = "L"
         THEN <<"HL">> \o EncodeUtf8(Tail(Tail(t)))
    ELSE IF Head(t) \in Surrogates \/ Head(t) = "R"
         THEN <<"FFFD">> \o EncodeUtf8(Tail(t))
    ELSE <<Head(t)>> \o EncodeUtf8(Tail(t))

\* bytes to text under 'utf8'
RECURSIVE DecodeUtf8(_)
DecodeUtf8(b) ==
    IF b = <<>> THEN <<>>
    ELSE IF Head(b) = "HL" THEN <<"H", "L">> \o DecodeUtf8(Tail(b))
    ELSE IF Head(b) = "FFFD" THEN <<"R">> \o DecodeUtf8(Tail(b))
    ELSE <<Head(b)>> \o DecodeUtf8(Tail(b))

\* a string every surrogate of which is half of a pair
RECURSIVE WellFormed(_)
WellFormed(t) ==
    IF t = <<>> THEN TRUE
    ELSE IF Len(t) >= 2 /\ t[1] = "H" /\ t[2] = "L" THEN WellFormed(Tail(Tail(t)))
    ELSE Head(t) \notin Surrogates /\ WellFormed(Tail(t))

\* the text values writeFile is called with
Data == { <<"y">>, <<"H">>, <<"H", "L">> }
AllPerm == {"r", "w"}
Absent == [kind |-> "none", perm |-> {}, data |-> NoData]
NewDir == [kind |-> "dir", perm |-> AllPerm, data |-> NoData]
NewFile(d) == [kind |-> "file", perm |-> AllPerm, data |-> d]

Lookup(f, n) == IF n \in DOMAIN f THEN f[n] ELSE Absent
Pre(n, k) == SubSeq(n, 1, k)
Parent(n) == Pre(n, Len(n) - 1)
IsPrefix(a, b) == Len(a) <= Len(b) /\ Pre(b, Len(a)) = a
Entries(f) == { n \in DOMAIN f : n # Root /\ f[n].kind # "none" }
Children(f, n) == { c \in Entries(f) : Len(c) = Len(n) + 1 /\ IsPrefix(n, c) }
Subtree(f, n) == { c \in Entries(f) : IsPrefix(n, c) }

\* a proper ancestor of n is a regular file
BlockedByFile(f, n) == \E k \in 0..(Len(n) - 1) : Lookup(f, Pre(n, k)).kind = "file"
\* the blocking ancestor of n (there is at most one: nothing lives below a file)
BlockingAncestor(f, n) ==
    CHOOSE a \in { Pre(n, k) : k \in 0..(Len(n) - 1) } : Lookup(f, a).kind = "file"

EmptyFS == [n \in Nodes |-> IF n = Root THEN NewDir ELSE Absent]

\* the host filesystem, the working directory of the process, and the record
\* of the latest call of the layer: what it returned and what it started from
VARIABLES fs, cwd, fsBefore, last

\* one run of forEachFileIn: its arguments, the directory it lists, and where
\* the run stands
VARIABLES feDir, fePattern, feListing, fePc, feFiles, feNext, feRunning, feCalls,
          feThrown, feFailedAt, feErr

\* two concurrent calls of one operation on one path: the operation, the
\* path, and for each call where it stands, what its exists saw, and the
\* error it threw
VARIABLES cOp, cPath, cPc, cSaw, cErr

\* the process and its standard input: the test-environment switch, whether
\* stdin is a terminal, the listeners on process.stdin, whether it flows,
\* whether it has ended or failed, and the chunks that have arrived
VARIABLES testEnv, isTTY, stdinListeners, stdinFlowing, stdinState, stdinSeen

\* one call of readStdin: the locals of its promise executor, its timer, and
\* the calls of resolve (how many, the first value, and by which handler)
VARIABLES rsPc, input, hasData, resolved, timeout, rsResolves, rsResult, rsBy

\* one call of promptConfirmation: the calls of resolve and of the prompt
VARIABLES pcPc, pcResolves, pcResult, pcPrompts

\* the command errors built: the latest and the one before it, and the cause
\* argument the latest was built with
VARIABLES errLatest, errPrevious, errCauseArg

\* the latest call of a validation helper: its arguments and its outcome
VARIABLES vLast

storeVars == <<fs, cwd, fsBefore, last>>
errVars == <<errLatest, errPrevious, errCauseArg>>
valVars == <<vLast>>
libVars == <<errVars, valVars>>
concVars == <<cOp, cPath, cPc, cSaw, cErr>>
stdinVars == <<testEnv, isTTY, stdinListeners, stdinFlowing, stdinState, stdinSeen>>
rsVars == <<rsPc, input, hasData, resolved, timeout, rsResolves, rsResult, rsBy>>
pcVars == <<pcPc, pcResolves, pcResult, pcPrompts>>
ioVars == <<stdinVars, rsVars, pcVars>>
feVars == <<feDir, fePattern, feListing, fePc, feFiles, feNext, feRunning, feCalls,
            feThrown, feFailedAt, feErr>>
vars == <<storeVars, feVars, concVars, ioVars, libVars>>

\* ------------------------------------------------------------------ errors
NoPath == <<>>
NoErr == [kind |-> "none", code |-> "", tmpl |-> "", path |-> NoPath,
          path2 |-> NoPath, at |-> NoPath]
\* an error object made by the host (fs.promises.*): errno code, and the
\* path(s) its message quotes
HostErr(code, p) == [kind |-> "host", code |-> code, tmpl |-> "", path |-> p,
                     path2 |-> NoPath, at |-> NoPath]
HostErr2(code, p, q) == [kind |-> "host", code |-> code, tmpl |-> "", path |-> p,
                         path2 |-> q, at |-> NoPath]
\* new Error(`<tmpl> ${path} ... ${at} ... ${cause.message}`) made by the layer
LayerErr(tmpl, p, at, code) == [kind |-> "layer", code |-> code, tmpl |-> tmpl,
                                path |-> p, path2 |-> NoPath, at |-> at]

\* -------------------------------------------------------- host primitives
\* fs.promises.stat
HostStat(f, wd, p) ==
    LET n == Resolve(wd, p) IN
    IF BlockedByFile(f, n) THEN [code |-> "ENOTDIR", kind |-> "none"]
    ELSE IF Lookup(f, n).kind = "none" THEN [code |-> "ENOENT", kind |-> "none"]
    ELSE [code |-> "OK", kind |-> Lookup(f, n).kind]

\* fs.promises.access(path, R_OK | W_OK)
HostAccess(f, wd, p, bit) ==
    LET st == HostStat(f, wd, p) IN
    IF st.code # "OK" THEN st.code
    ELSE IF bit \in Lookup(f, Resolve(wd, p)).perm THEN "OK" ELSE "EACCES"

\* depth of the deepest existing ancestor of n
DeepestExisting(f, n) ==
    CHOOSE k \in 0..Len(n) :
        /\ Lookup(f, Pre(n, k)).kind # "none"
        /\ \A j \in (k + 1)..Len(n) : Lookup(f, Pre(n, j)).kind = "none"

\* fs.promises.mkdir(path, {recursive: true})
HostMkdirP(f, wd, p) ==
    LET n == Resolve(wd, p) IN
    IF BlockedByFile(f, n) THEN [code |-> "ENOTDIR", fs |-> f]
    ELSE IF Lookup(f, n).kind = "file" THEN [code |-> "EEXIST", fs |-> f]
    ELSE IF Lookup(f, n).kind = "dir" THEN [code |-> "OK", fs |-> f]
    ELSE LET k == DeepestExisting(f, n) IN
         IF "w" \notin Lookup(f, Pre(n, k)).perm THEN [code |-> "EACCES", fs |-> f]
         ELSE [code |-> "OK",
               fs |-> [m \in DOMAIN f |->
                          IF IsPrefix(m, n) /\ Len(m) > k THEN NewDir ELSE f[m]]]

\* the entries below and including n that a recursive removal deletes, given
\* that the parent of n lets n go
RECURSIVE Removable(_, _)
Removable(f, n) ==
    IF f[n].kind = "file" \/ Children(f, n) = {} THEN {n}
    ELSE IF ~(AllPerm \subseteq f[n].perm) THEN {}
    ELSE LET sub == UNION { Removable(f, c) : c \in Children(f, n) } IN
         IF Children(f, n) \subseteq sub THEN sub \cup {n} ELSE sub

Without(f, gone) == [m \in DOMAIN f |-> IF m \in gone THEN Absent ELSE f[m]]

\* fs.promises.rm(path, {recursive: true, force: true})
HostRm(f, wd, p) ==
    LET n == Resolve(wd, p) IN
    IF BlockedByFile(f, n) THEN [code |-> "ENOTDIR", fs |-> f]
    ELSE IF Lookup(f, n).kind = "none" THEN [code |-> "OK", fs |-> f]
    ELSE IF "w" \notin Lookup(f, Parent(n)).perm THEN [code |-> "EACCES", fs |-> f]
    ELSE LET gone == Removable(f, n) IN
         [code |-> IF n \in gone THEN "OK" ELSE "EACCES", fs |-> Without(f, gone)]

\* fs.promises.unlink
HostUnlink(f, wd, p) ==
    LET n == Resolve(wd, p) IN
    IF BlockedByFile(f, n) THEN [code |-> "ENOTDIR", fs |-> f]
    ELSE IF Lookup(f, n).kind = "none" THEN [code |-> "ENOENT", fs |-> f]
    ELSE IF Lookup(f, n).kind = "dir" THEN [code |-> "EISDIR", fs |-> f]
    ELSE IF "w" \notin Lookup(f, Parent(n)).perm THEN [code |-> "EACCES", fs |-> f]
    ELSE [code |-> "OK", fs |-> Without(f, {n})]

\* fs.promises.readFile(path, {encoding: 'utf8'}): `named` tells whether the host's message quotes the
\* path (the EISDIR of a directory comes from read(2), which has no path)
HostReadFile(f, wd, p) ==
    LET n == Resolve(wd, p) IN
    IF BlockedByFile(f, n) THEN [code |-> "ENOTDIR", data |-> NoData, named |-> TRUE]
    ELSE IF Lookup(f, n).kind = "none" THEN [code |-> "ENOENT", data |-> NoData, named |-> TRUE]
    ELSE IF "r" \notin Lookup(f, n).perm THEN [code |-> "EACCES", data |-> NoData, named |-> TRUE]
    ELSE IF Lookup(f, n).kind = "dir" THEN [code |-> "EISDIR", data |-> NoData, named |-> FALSE]
    ELSE [code |-> "OK", data |-> DecodeUtf8(f[n].data), named |-> TRUE]

\* fs.promises.writeFile(path, data, {encoding: 'utf8'}): create or truncate
HostWriteFile(f, wd, p, d) ==
    LET n == Resolve(wd, p) IN
    IF BlockedByFile(f, n) THEN [code |-> "ENOTDIR", fs |-> f]
    ELSE IF Lookup(f, Parent(n)).kind = "none" THEN [code |-> "ENOENT", fs |-> f]
    ELSE IF Lookup(f, n).kind = "dir" THEN [code |-> "EISDIR", fs |-> f]
    ELSE IF Lookup(f, n).kind = "file" THEN
         IF "w" \notin f[n].perm THEN [code |-> "EACCES", fs |-> f]
         ELSE [code |-> "OK", fs |-> [f EXCEPT ![n].data = EncodeUtf8(d)]]
    ELSE IF "w" \notin Lookup(f, Parent(n)).perm THEN [code |-> "EACCES", fs |-> f]
    ELSE [code |-> "OK", fs |-> [f EXCEPT ![n] = NewFile(EncodeUtf8(d))]]

\* fs.promises.readdir
HostReaddir(f, wd, p) ==
    LET n == Resolve(wd, p) IN
    IF BlockedByFile(f, n) THEN [code |-> "ENOTDIR", names |-> {}]
    ELSE IF Lookup(f, n).kind = "none" THEN [code |-> "ENOENT", names |-> {}]
    ELSE IF Lookup(f, n).kind = "file" THEN [code |-> "ENOTDIR", names |-> {}]
    ELSE IF "r" \notin f[n].perm THEN [code |-> "EACCES", names |-> {}]
    ELSE [code |-> "OK", names |-> { c[Len(c)] : c \in Children(f, n) }]

\* the tree below o, moved below n
Moved(f, o, n) ==
    [m \in DOMAIN f |->
        IF IsPrefix(n, m) THEN Lookup(f, o \o SubSeq(m, Len(n) + 1, Len(m)))
        ELSE IF IsPrefix(o, m) THEN Absent
        ELSE f[m]]

\* fs.promises.rename
HostRename(f, wd, p, q) ==
    LET o == Resolve(wd, p)
        n == Resolve(wd, q) IN
    IF BlockedByFile(f, o) \/ BlockedByFile(f, n) THEN [code |-> "ENOTDIR", fs |-> f]
    ELSE IF Lookup(f, o).kind = "none" \/ Lookup(f, Parent(n)).kind = "none"
         THEN [code |-> "ENOENT", fs |-> f]
    ELSE IF o = n THEN [code |-> "OK", fs |-> f]
    ELSE IF IsPrefix(o, n) THEN [code |-> "EINVAL", fs |-> f]
    ELSE IF f[o].kind = "dir" /\ Lookup(f, n).kind = "file" THEN [code |-> "ENOTDIR", fs |-> f]
    ELSE IF f[o].kind = "file" /\ Lookup(f, n).kind = "dir" THEN [code |-> "EISDIR", fs |-> f]
    ELSE IF Lookup(f, n).kind = "dir" /\ Children(f, n) # {} THEN [code |-> "ENOTEMPTY", fs |-> f]
    ELSE IF "w" \notin f[Parent(o)].perm \/ "w" \notin f[Parent(n)].perm
         THEN [code |-> "EACCES", fs |-> f]
    ELSE [code |-> "OK", fs |-> Moved(f, o, n)]

\* ------------------------------------------------- the layer's operations
\* Each operation is an operator from the filesystem, the working directory
\* and its arguments to what the awaited promise gives: the filesystem
\* afterwards, the error it rejects with (NoErr when it resolves) and the
\* value it resolves with.
Ok(f) == [fs |-> f, err |-> NoErr, bool |-> FALSE, data |-> NoData, names |-> {}]
OkBool(f, b) == [fs |-> f, err |-> NoErr, bool |-> b, data |-> NoData, names |-> {}]
OkData(f, d) == [fs |-> f, err |-> NoErr, bool |-> FALSE, data |-> d, names |-> {}]
OkNames(f, s) == [fs |-> f, err |-> NoErr, bool |-> FALSE, data |-> NoData, names |-> s]
Fail(f, e) == [fs |-> f, err |-> e, bool |-> FALSE, data |-> NoData, names |-> {}]
Threw(r) == r.err.kind # "none"

exists_nocatch(f, wd, p) ==
    LET st == HostStat(f, wd, p) IN
    IF st.code = "OK" THEN OkBool(f, TRUE) ELSE Fail(f, HostErr(st.code, p))

exists(f, wd, p) == OkBool(f, HostStat(f, wd, p).code = "OK")

isDirectory(f, wd, p) ==
    LET st == HostStat(f, wd, p) IN
    IF st.code # "OK" THEN Fail(f, HostErr(st.code, p))
    ELSE OkBool(f, st.kind = "dir")

isFile(f, wd, p) ==
    LET st == HostStat(f, wd, p) IN
    IF st.code # "OK" THEN Fail(f, HostErr(st.code, p))
    ELSE OkBool(f, st.kind = "file")

isReadable(f, wd, p) == OkBool(f, HostAccess(f, wd, p, "r") = "OK")

isWritable(f, wd, p) == OkBool(f, HostAccess(f, wd, p, "w") = "OK")

\* a && b && c over awaited results: b is evaluated only when a gave true, c
\* only when b did, and a rejection of one of them rejects the whole
AndThen(a, b) == IF Threw(a) THEN a ELSE IF ~a.bool THEN a ELSE b

isFileReadable_noexists(f, wd, p) ==
    AndThen(isFile(f, wd, p), isReadable(f, wd, p))

isFileReadable(f, wd, p) ==
    AndThen(exists(f, wd, p), AndThen(isFile(f, wd, p), isReadable(f, wd, p)))

isDirectoryWritable(f, wd, p) ==
    AndThen(exists(f, wd, p), AndThen(isDirectory(f, wd, p), isWritable(f, wd, p)))

isDirectoryReadable(f, wd, p) ==
    AndThen(exists(f, wd, p), AndThen(isDirectory(f, wd, p), isReadable(f, wd, p)))

createDirectory(f, wd, p) ==
    LET mk == HostMkdirP(f, wd, p) IN
    IF mk.code = "OK" THEN Ok(mk.fs)
    ELSE Fail(f, LayerErr("FailedCreate", p, NoPath, mk.code))

\* the loop of ensureDirectory over pathParts: the first currentPath that
\* exists and is not a directory, NoPath when the loop runs out
RECURSIVE FindBlocking(_, _, _, _)
FindBlocking(f, wd, parts, currentPath) ==
    IF parts = <<>> THEN NoPath
    ELSE LET cur == NextCurrentPath(currentPath, Head(parts)) IN
         IF exists(f, wd, cur).bool /\ ~isDirectory(f, wd, cur).bool
         THEN cur
         ELSE FindBlocking(f, wd, Tail(parts), cur)

ensureDirectory_inverted(f, wd, p) ==
    IF ~exists(f, wd, p).bool THEN
        LET mk == HostMkdirP(f, wd, p) IN
        IF mk.code = "OK" THEN Ok(mk.fs)
        ELSE LET at == IF mk.code = "ENOTDIR"
                       THEN FindBlocking(f, wd, PathParts(p), <<>>)
                       ELSE NoPath IN
             IF at # NoPath THEN Fail(f, LayerErr("Blocked", p, at, ""))
             ELSE Fail(f, LayerErr("FailedCreate", p, NoPath, mk.code))
    ELSE LET d == isDirectory(f, wd, p) IN
         IF Threw(d) THEN Fail(f, d.err)
         ELSE IF d.bool THEN Fail(f, LayerErr("FileAtTarget", p, NoPath, ""))
         ELSE Ok(f)

ensureDirectory_replace(f, wd, p) ==
    IF ~exists(f, wd, p).bool THEN
        LET mk == HostMkdirP(f, wd, p) IN
        IF mk.code = "OK" THEN Ok(mk.fs)
        ELSE LET at == IF mk.code = "ENOTDIR"
                       THEN FindBlocking(f, wd, PathParts(p), <<>>)
                       ELSE NoPath IN
             IF at # NoPath THEN Fail(f, LayerErr("Blocked", p, at, ""))
             ELSE Fail(f, LayerErr("FailedCreate", p, NoPath, mk.code))
    ELSE LET d == isDirectory(f, wd, p) IN
         IF Threw(d) THEN Fail(f, d.err)
         ELSE IF ~d.bool THEN Ok([f EXCEPT ![Resolve(wd, p)] = NewDir])
         ELSE Ok(f)

ensureDirectory(f, wd, p) ==
    IF ~exists(f, wd, p).bool THEN
        LET mk == HostMkdirP(f, wd, p) IN
        IF mk.code = "OK" THEN Ok(mk.fs)
        ELSE LET at == IF mk.code = "ENOTDIR"
                       THEN FindBlocking(f, wd, PathParts(p), <<>>)
                       ELSE NoPath IN
             IF at # NoPath THEN Fail(f, LayerErr("Blocked", p, at, ""))
             ELSE Fail(f, LayerErr("FailedCreate", p, NoPath, mk.code))
    ELSE LET d == isDirectory(f, wd, p) IN
         IF Threw(d) THEN Fail(f, d.err)
         ELSE IF ~d.bool THEN Fail(f, LayerErr("FileAtTarget", p, NoPath, ""))
         ELSE Ok(f)

removeDirectory(f, wd, p) ==
    IF exists(f, wd, p).bool THEN
        LET rm == HostRm(f, wd, p) IN
        IF rm.code = "OK" THEN Ok(rm.fs)
        ELSE Fail(rm.fs, LayerErr("FailedRemove", p, NoPath, rm.code))
    ELSE Ok(f)

readFile(f, wd, p) ==
    LET rd == HostReadFile(f, wd, p) IN
    IF rd.code = "OK" THEN OkData(f, rd.data)
    ELSE Fail(f, HostErr(rd.code, IF rd.named THEN p ELSE NoPath))

writeFile_append(f, wd, p, d) ==
    LET wr == HostWriteFile(f, wd, p, d) IN
    IF wr.code # "OK" THEN Fail(f, HostErr(wr.code, p))
    ELSE Ok([wr.fs EXCEPT ![Resolve(wd, p)].data =
                Lookup(f, Resolve(wd, p)).data \o EncodeUtf8(d)])

writeFile(f, wd, p, d) ==
    LET wr == HostWriteFile(f, wd, p, d) IN
    IF wr.code = "OK" THEN Ok(wr.fs) ELSE Fail(f, HostErr(wr.code, p))

rename(f, wd, p, q) ==
    LET mv == HostRename(f, wd, p, q) IN
    IF mv.code = "OK" THEN Ok(mv.fs) ELSE Fail(f, HostErr2(mv.code, p, q))

\* String.prototype.slice(from, to) on a sequence of characters: a negative
\* index counts from the end, and both are clamped to the length
SliceIndex(len, k) ==
    IF k < 0 THEN (IF len + k < 0 THEN 0 ELSE len + k)
    ELSE IF k > len THEN len ELSE k
Slice(t, from, to) == SubSeq(t, SliceIndex(Len(t), from) + 1, SliceIndex(Len(t), to))

\* crypto.createHash('sha256').update(text).digest('hex'): HexLen lowercase
\* hexadecimal characters determined by the UTF-8 bytes of the text.  The
\* compression function is stood for by a polynomial mix of the bytes, which
\* keeps what the layer relies on: a fixed length, a fixed alphabet, and a
\* value that depends on nothing but the bytes.
HexLen == 64
HexDigits == <<"0", "1", "2", "3", "4", "5", "6", "7",
               "8", "9", "a", "b", "c", "d", "e", "f">>
ByteCode(b) ==
    CASE b = "x" -> 1 [] b = "y" -> 2 [] b = "HL" -> 3 [] b = "FFFD" -> 4 [] OTHER -> 5
RECURSIVE Mix(_, _)
Mix(bytes, h) ==
    IF bytes = <<>> THEN h
    ELSE Mix(Tail(bytes), (h * 31 + ByteCode(Head(bytes))) % 65521)
Sha256Hex(text) ==
    LET h == Mix(EncodeUtf8(text), 7) IN
    [i \in 1..HexLen |-> HexDigits[((h * i + (i \div 3)) % 16) + 1]]

hashFile_tail(f, wd, p, length) ==
    LET file == readFile(f, wd, p) IN
    IF Threw(file) THEN file
    ELSE OkData(f, Slice(Sha256Hex(file.data), 0 - length, HexLen))

hashFile(f, wd, p, length) ==
    LET file == readFile(f, wd, p) IN
    IF Threw(file) THEN file
    ELSE OkData(f, Slice(Sha256Hex(file.data), 0, length))

deleteFile_nocheck(f, wd, p) ==
    LET ul == HostUnlink(f, wd, p) IN
    IF ul.code = "OK" THEN Ok(ul.fs)
    ELSE Fail(f, LayerErr("FailedDelete", p, NoPath, ul.code))

deleteFile(f, wd, p) ==
    IF exists(f, wd, p).bool THEN
        LET ul == HostUnlink(f, wd, p) IN
        IF ul.code = "OK" THEN Ok(ul.fs)
        ELSE Fail(f, LayerErr("FailedDelete", p, NoPath, ul.code))
    ELSE Ok(f)

listFiles(f, wd, p) ==
    LET ls == HostReaddir(f, wd, p) IN
    IF ls.code = "OK" THEN OkNames(f, ls.names) ELSE Fail(f, HostErr(ls.code, p))

\* ------------------------------------------------ calls, one at a time
\* Init: a process in one of the working directories, over a filesystem that
\* holds the working directory and at most one further entry /a, a file or a
\* directory with any permission bits (the layer never sets permissions, so
\* restricted entries exist only if they were there before).
SeedEntries ==
    { [kind |-> k, perm |-> pm, data |-> IF k = "file" THEN <<"x">> ELSE NoData] :
        k \in {"file", "dir"}, pm \in SUBSET AllPerm } \cup {Absent}

\* no run of forEachFileIn
FeIdle ==
    /\ feDir = NoPath /\ fePattern = NoPath /\ feListing = <<>>
    /\ fePc = "idle" /\ feFiles = <<>> /\ feNext = 1 /\ feRunning = {}
    /\ feCalls = <<>> /\ feThrown = NoErr /\ feFailedAt = 0 /\ feErr = NoErr

\* the value undefined, and an error object of the hierarchy: `class` is the
\* constructor it was built with and `extra` the fields a subclass adds
Undefined == "undefined"
NoErrorObject ==
    [class |-> "none", name |-> "", message |-> <<>>, code |-> "", recoverable |-> FALSE,
     originalCause |-> Undefined, cause |-> Undefined, extra |-> <<>>]
\* a JavaScript value: what typeof says of it (with null, array, error and
\* the object without prototype told apart) and its content as text
JsValue(t, v) == [t |-> t, v |-> v]
NoValCall ==
    [fn |-> "none", value |-> JsValue("undefined", <<>>), fieldName |-> Undefined,
     allowed |-> <<>>, schema |-> "none",
     raised |-> FALSE, success |-> FALSE, result |-> JsValue("undefined", <<>>),
     error |-> <<>>]
\* no command error built and no validation helper called
LibIdle ==
    /\ errLatest = NoErrorObject /\ errPrevious = NoErrorObject /\ errCauseArg = Undefined
    /\ vLast = NoValCall

\* no concurrent calls
ConcProcs == {1, 2}
ConcIdle ==
    /\ cOp = "none" /\ cPath = NoPath
    /\ cPc = [i \in ConcProcs |-> "done"]
    /\ cSaw = [i \in ConcProcs |-> FALSE]
    /\ cErr = [i \in ConcProcs |-> NoErr]

\* what a promise of readStdin resolves with: null or a string
NullValue == [null |-> TRUE, text |-> <<>>]
StringValue(t) == [null |-> FALSE, text |-> t]

\* stdin untouched (process.stdin starts paused) and no call of readStdin or
\* promptConfirmation
StdinIdle ==
    /\ stdinListeners = {} /\ stdinFlowing = FALSE
    /\ stdinState = "open" /\ stdinSeen = <<>>
RsIdle ==
    /\ rsPc = "idle" /\ input = <<>> /\ hasData = FALSE /\ resolved = FALSE
    /\ timeout = "unset" /\ rsResolves = 0 /\ rsResult = NullValue /\ rsBy = "none"
PcIdle ==
    /\ pcPc = "idle" /\ pcResolves = 0 /\ pcResult = FALSE /\ pcPrompts = 0
IoIdle ==
    /\ testEnv = FALSE /\ isTTY = FALSE
    /\ StdinIdle /\ RsIdle /\ PcIdle

NoCall == [op |-> "none", path |-> NoPath, path2 |-> NoPath, arg |-> NoData, n |-> 0,
           ok |-> TRUE, bool |-> FALSE, data |-> NoData, names |-> {}, err |-> NoErr]

\* the filesystem and the working directory at the start, no call made
StoreInit ==
    /\ cwd \in WorkDirs
    /\ \E seed \in SeedEntries :
          fs = [n \in Nodes |->
                   IF n = Root \/ n = cwd THEN NewDir
                   ELSE IF n = <<SegA>> THEN seed
                   ELSE Absent]
    /\ fsBefore = fs
    /\ last = NoCall

Init ==
    /\ StoreInit
    /\ FeIdle
    /\ ConcIdle
    /\ IoIdle
    /\ LibIdle

\* the model keeps the filesystem within its bounds and the working
\* directory in place
WithinBounds(f) ==
    /\ Cardinality(Entries(f)) <= MaxEntries
    /\ Lookup(f, cwd).kind = "dir"

\* no call is in progress: the caller has taken the last result
Idle == last.op = "none"

\* one awaited call of operation op with result r; `last` holds what the
\* caller got and fsBefore the filesystem the call started from
CallWith(op, p, q, d, k, r) ==
    /\ WithinBounds(r.fs)
    /\ fs' = r.fs
    /\ fsBefore' = fs
    /\ last' = [op |-> op, path |-> p, path2 |-> q, arg |-> d, n |-> k, ok |-> ~Threw(r),
                bool |-> r.bool, data |-> r.data, names |-> r.names, err |-> r.err]
    /\ UNCHANGED <<libVars, cwd, feVars, concVars, ioVars>>

Call(op, p, q, d, r) == CallWith(op, p, q, d, 0, r)

Call_exists ==
    Idle /\ \E p \in PathStrings : Call("exists", p, NoPath, NoData, exists(fs, cwd, p))
Call_isDirectory ==
    Idle /\ \E p \in PathStrings : Call("isDirectory", p, NoPath, NoData, isDirectory(fs, cwd, p))
Call_isFile ==
    Idle /\ \E p \in PathStrings : Call("isFile", p, NoPath, NoData, isFile(fs, cwd, p))
Call_isReadable ==
    Idle /\ \E p \in PathStrings : Call("isReadable", p, NoPath, NoData, isReadable(fs, cwd, p))
Call_isWritable ==
    Idle /\ \E p \in PathStrings : Call("isWritable", p, NoPath, NoData, isWritable(fs, cwd, p))
Call_isFileReadable ==
    Idle /\ \E p \in PathStrings :
        Call("isFileReadable", p, NoPath, NoData, isFileReadable(fs, cwd, p))
Call_isDirectoryWritable ==
    Idle /\ \E p \in PathStrings :
        Call("isDirectoryWritable", p, NoPath, NoData, isDirectoryWritable(fs, cwd, p))
Call_isDirectoryReadable ==
    Idle /\ \E p \in PathStrings :
        Call("isDirectoryReadable", p, NoPath, NoData, isDirectoryReadable(fs, cwd, p))
Call_createDirectory ==
    Idle /\ \E p \in PathStrings :
        Call("createDirectory", p, NoPath, NoData, createDirectory(fs, cwd, p))
Call_ensureDirectory ==
    Idle /\ \E p \in PathStrings :
        Call("ensureDirectory", p, NoPath, NoData, ensureDirectory(fs, cwd, p))
Call_removeDirectory ==
    Idle /\ \E p \in PathStrings :
        Call("removeDirectory", p, NoPath, NoData, removeDirectory(fs, cwd, p))
Call_readFile ==
    Idle /\ \E p \in PathStrings : Call("readFile", p, NoPath, NoData, readFile(fs, cwd, p))
Call_writeFile ==
    Idle /\ \E p \in PathStrings, d \in Data :
        Call("writeFile", p, NoPath, d, writeFile(fs, cwd, p, d))
\* (the new name is no deeper than the old one, so that what is moved stays
\* within the modelled depth)
Call_rename ==
    Idle /\ \E p \in PathStrings, q \in RenameTargets :
        /\ Len(Resolve(cwd, q)) <= Len(Resolve(cwd, p))
        /\ Call("rename", p, q, NoData, rename(fs, cwd, p, q))
Call_deleteFile ==
    Idle /\ \E p \in PathStrings : Call("deleteFile", p, NoPath, NoData, deleteFile(fs, cwd, p))
\* the lengths hashFile is called with
Lengths == {-1, 0, 8, HexLen, HexLen + 1}
Call_hashFile ==
    Idle /\ \E p \in PathStrings, n \in Lengths :
        CallWith("hashFile", p, NoPath, NoData, n, hashFile(fs, cwd, p, n))
Call_listFiles ==
    Idle /\ \E p \in PathStrings : Call("listFiles", p, NoPath, NoData, listFiles(fs, cwd, p))

\* the caller has taken the result and goes on to its next call
Return ==
    /\ last.op # "none"
    /\ last' = NoCall
    /\ fsBefore' = fs
    /\ UNCHANGED <<libVars, fs, cwd, feVars, concVars, ioVars>>

Next ==
    \/ Return
    \/ Call_exists
    \/ Call_isDirectory
    \/ Call_isFile
    \/ Call_isReadable
    \/ Call_isWritable
    \/ Call_isFileReadable
    \/ Call_isDirectoryWritable
    \/ Call_isDirectoryReadable
    \/ Call_createDirectory
    \/ Call_ensureDirectory
    \/ Call_removeDirectory
    \/ Call_readFile
    \/ Call_writeFile
    \/ Call_rename
    \/ Call_deleteFile
    \/ Call_hashFile
    \/ Call_listFiles

Spec == Init /\ [][Next]_vars

\* ----------------------------------------------------------- forEachFileIn
\* The entries of the directory that is enumerated: two files and a
\* directory whose names have an extension, and a file without one.
FileAT == <<"a", ".", "t">>
FileBT == <<"b", ".", "t">>
SubSD == <<"s", ".", "d">>
PlainR == <<"r">>
FeNames == {FileAT, FileBT, SubSD, PlainR}
FeListings ==
    { l \in [FeNames -> {"none", "file", "dir"}] :
        l[SubSD] # "file" /\ l[PlainR] # "dir" /\ l[FileAT] # "dir" /\ l[FileBT] # "dir" }
FeDirs == { <<"d">>, <<"d", Slash>>, <<Slash, "d">> }
StarDotStar == <<"*", ".", "*">>
Star == <<"*">>
FePatterns == {StarDotStar, Star}
VisitorErrors == {"E1", "E2"}

\* the error a visitor rejects with
VisitorErr(id) == [kind |-> "visitor", code |-> id, tmpl |-> "", path |-> NoPath,
                   path2 |-> NoPath, at |-> NoPath]
\* new Error(`Failed to glob pattern ${options.pattern} in ${directory}: ${err.message}`)
GlobErr(pattern, dir, e) == [kind |-> "layer", code |-> e.code, tmpl |-> "FailedGlob",
                             path |-> dir, path2 |-> pattern, at |-> NoPath]

\* the pattern matcher on one name: `*` stands for any run of characters and
\* does not match a leading dot
Matches(pattern, name) ==
    /\ Head(name) # "."
    /\ pattern = StarDotStar => \E i \in 1..Len(name) : name[i] = "."

\* glob(pattern, {cwd: directory, nodir}): the names it returns
Glob(pattern, listing, nodir) ==
    { n \in DOMAIN listing :
        /\ listing[n] # "none"
        /\ Matches(pattern, n)
        /\ nodir => listing[n] = "file" }

GlobCall_dirs(pattern, listing) == Glob(pattern, listing, FALSE)

\* the call forEachFileIn makes: { cwd: directory, nodir: true }
GlobCall(pattern, listing) == Glob(pattern, listing, TRUE)

\* the orders the matcher may return a set of names in
Orders(S) == { q \in [1..Cardinality(S) -> S] : \A i, j \in DOMAIN q : q[i] = q[j] => i = j }

\* path.join(directory, file)
PathJoin(dir, file) == Render(IsAbsolute(dir), PathParts(dir \o <<Slash>> \o file))

CanInvoke_noawait(pc) == pc \in {"loop", "await"}

\* `await callback(...)`: the loop goes on only with no invocation pending
CanInvoke(pc) == pc = "loop"

AfterReject_continue == "loop"

\* a rejection of the awaited invocation leaves the loop for the catch clause
AfterReject == "rejected"

\* what the catch clause throws for the error err it caught
Rethrown(pattern, dir, e) == GlobErr(pattern, dir, e)

InitForEach ==
    /\ fs = EmptyFS /\ cwd = Root /\ fsBefore = fs /\ last = NoCall
    /\ feDir \in FeDirs
    /\ fePattern \in FePatterns
    /\ feListing \in FeListings
    /\ fePc = "glob" /\ feFiles = <<>> /\ feNext = 1 /\ feRunning = {}
    /\ feCalls = <<>> /\ feThrown = NoErr /\ feFailedAt = 0 /\ feErr = NoErr
    /\ ConcIdle
    /\ IoIdle
    /\ LibIdle

\* const files = await glob(...): the matcher returns the names
FeGlob ==
    /\ fePc = "glob"
    /\ \E q \in Orders(GlobCall(fePattern, feListing)) : feFiles' = q
    /\ fePc' = "loop"
    /\ UNCHANGED <<libVars, storeVars, concVars, ioVars, feDir, fePattern, feListing, feNext, feRunning, feCalls,
                   feThrown, feFailedAt, feErr>>

\* ... or the matcher fails
FeGlobFails ==
    /\ fePc = "glob"
    /\ fePc' = "rejected"
    /\ feErr' = Rethrown(fePattern, feDir, HostErr("EGLOB", feDir))
    /\ UNCHANGED <<libVars, storeVars, concVars, ioVars, feDir, fePattern, feListing, feFiles, feNext, feRunning,
                   feCalls, feThrown, feFailedAt>>

\* callback(path.join(directory, file)) for the next file
FeInvoke ==
    /\ CanInvoke(fePc)
    /\ feNext <= Len(feFiles)
    /\ feCalls' = Append(feCalls, PathJoin(feDir, feFiles[feNext]))
    /\ feRunning' = feRunning \cup {feNext}
    /\ feNext' = feNext + 1
    /\ fePc' = "await"
    /\ UNCHANGED <<libVars, storeVars, concVars, ioVars, feDir, fePattern, feListing, feFiles, feThrown,
                   feFailedAt, feErr>>

\* the promise of a pending invocation resolves
FeVisitorResolves ==
    /\ fePc \in {"loop", "await"}
    /\ \E i \in feRunning :
          /\ feRunning' = feRunning \ {i}
          /\ fePc' = IF feRunning' = {} THEN "loop" ELSE fePc
    /\ UNCHANGED <<libVars, storeVars, concVars, ioVars, feDir, fePattern, feListing, feFiles, feNext, feCalls,
                   feThrown, feFailedAt, feErr>>

\* the promise of a pending invocation rejects with an error of the visitor
FeVisitorRejects ==
    /\ fePc \in {"loop", "await"}
    /\ \E i \in feRunning, id \in VisitorErrors :
          /\ feRunning' = feRunning \ {i}
          /\ feThrown' = VisitorErr(id)
          /\ feFailedAt' = i
          /\ fePc' = AfterReject
          /\ feErr' = IF AfterReject = "rejected"
                      THEN Rethrown(fePattern, feDir, VisitorErr(id))
                      ELSE feErr
    /\ UNCHANGED <<libVars, storeVars, concVars, ioVars, feDir, fePattern, feListing, feFiles, feNext, feCalls>>

\* the loop is over: forEachFileIn resolves
FeReturn ==
    /\ fePc = "loop"
    /\ feNext > Len(feFiles)
    /\ fePc' = "resolved"
    /\ UNCHANGED <<libVars, storeVars, concVars, ioVars, feDir, fePattern, feListing, feFiles, feNext, feRunning,
                   feCalls, feThrown, feFailedAt, feErr>>

NextForEach ==
    \/ FeGlob
    \/ FeGlobFails
    \/ FeInvoke
    \/ FeVisitorResolves
    \/ FeVisitorRejects
    \/ FeReturn

SpecForEach == InitForEach /\ [][NextForEach]_vars

\* ------------------------------------------------------ concurrent calls
\* Two calls of deleteFile, or of ensureDirectory, on the same path run
\* concurrently: each await of a host operation is one step, and the steps
\* of the two calls interleave in any order.
ConcOps == {"deleteFile", "ensureDirectory"}
CNode == Resolve(cwd, cPath)

MkdirStep_exclusive(f, n) ==
    IF BlockedByFile(f, n) THEN [code |-> "ENOTDIR", fs |-> f, more |-> FALSE]
    ELSE IF Lookup(f, n).kind # "none" THEN [code |-> "EEXIST", fs |-> f, more |-> FALSE]
    ELSE LET k == DeepestExisting(f, n) IN
         IF "w" \notin Lookup(f, Pre(n, k)).perm
         THEN [code |-> "EACCES", fs |-> f, more |-> FALSE]
         ELSE [code |-> "OK", fs |-> [f EXCEPT ![Pre(n, k + 1)] = NewDir],
               more |-> k + 1 < Len(n)]

\* one directory made by fs.promises.mkdir(path, {recursive: true}), which
\* makes the missing directories one by one from the top and takes a
\* directory that is already there for made; `more` says whether it goes on
MkdirStep(f, n) ==
    IF BlockedByFile(f, n) THEN [code |-> "ENOTDIR", fs |-> f, more |-> FALSE]
    ELSE IF Lookup(f, n).kind = "file" THEN [code |-> "EEXIST", fs |-> f, more |-> FALSE]
    ELSE IF Lookup(f, n).kind = "dir" THEN [code |-> "OK", fs |-> f, more |-> FALSE]
    ELSE LET k == DeepestExisting(f, n) IN
         IF "w" \notin Lookup(f, Pre(n, k)).perm
         THEN [code |-> "EACCES", fs |-> f, more |-> FALSE]
         ELSE [code |-> "OK", fs |-> [f EXCEPT ![Pre(n, k + 1)] = NewDir],
               more |-> k + 1 < Len(n)]

\* catch (mkdirError) of ensureDirectory: the error it throws
MkdirCatch(f, wd, p, code) ==
    LET at == IF code = "ENOTDIR" THEN FindBlocking(f, wd, PathParts(p), <<>>)
              ELSE NoPath IN
    IF at # NoPath THEN LayerErr("Blocked", p, at, "")
    ELSE LayerErr("FailedCreate", p, NoPath, code)

DeleteCatch_ignoreAbsent(code, p) ==
    IF code = "ENOENT" THEN NoErr ELSE LayerErr("FailedDelete", p, NoPath, code)

\* catch (deleteError) of deleteFile: the error it throws
DeleteCatch(code, p) == LayerErr("FailedDelete", p, NoPath, code)

InitConc ==
    /\ StoreInit
    /\ FeIdle
    /\ IoIdle
    /\ LibIdle
    /\ cOp \in ConcOps
    /\ cPath \in PathStrings
    /\ cPc = [i \in ConcProcs |-> "exists"]
    /\ cSaw = [i \in ConcProcs |-> FALSE]
    /\ cErr = [i \in ConcProcs |-> NoErr]

\* call i gets the answer of its await exists(path)
CExists(i) ==
    /\ cPc[i] = "exists"
    /\ LET saw == exists(fs, cwd, cPath).bool IN
          /\ cSaw' = [cSaw EXCEPT ![i] = saw]
          /\ cPc' = [cPc EXCEPT ![i] =
                        IF cOp = "deleteFile" THEN (IF saw THEN "unlink" ELSE "done")
                        ELSE (IF saw THEN "stat" ELSE "mkdir")]
    /\ UNCHANGED <<libVars, storeVars, feVars, ioVars, cOp, cPath, cErr>>

\* call i of deleteFile gets the outcome of its await fs.promises.unlink(path)
CUnlink(i) ==
    /\ cPc[i] = "unlink"
    /\ LET ul == HostUnlink(fs, cwd, cPath) IN
          /\ fs' = ul.fs
          /\ cErr' = [cErr EXCEPT ![i] =
                         IF ul.code = "OK" THEN NoErr ELSE DeleteCatch(ul.code, cPath)]
    /\ cPc' = [cPc EXCEPT ![i] = "done"]
    /\ UNCHANGED <<libVars, cwd, fsBefore, last, feVars, ioVars, cOp, cPath, cSaw>>

\* call i of ensureDirectory, its mkdir under way: one more directory
CMkdir(i) ==
    /\ cPc[i] = "mkdir"
    /\ LET mk == MkdirStep(fs, CNode) IN
          /\ fs' = mk.fs
          /\ cErr' = [cErr EXCEPT ![i] =
                         IF mk.code = "OK" THEN NoErr
                         ELSE MkdirCatch(fs, cwd, cPath, mk.code)]
          /\ cPc' = [cPc EXCEPT ![i] = IF mk.more THEN "mkdir" ELSE "done"]
    /\ UNCHANGED <<libVars, cwd, fsBefore, last, feVars, ioVars, cOp, cPath, cSaw>>

\* call i of ensureDirectory, the path exists: await isDirectory(path)
CStat(i) ==
    /\ cPc[i] = "stat"
    /\ LET d == isDirectory(fs, cwd, cPath) IN
          cErr' = [cErr EXCEPT ![i] =
                      IF Threw(d) THEN d.err
                      ELSE IF ~d.bool THEN LayerErr("FileAtTarget", cPath, NoPath, "")
                      ELSE NoErr]
    /\ cPc' = [cPc EXCEPT ![i] = "done"]
    /\ UNCHANGED <<libVars, storeVars, feVars, ioVars, cOp, cPath, cSaw>>

NextConc ==
    \/ \E i \in ConcProcs : CExists(i)
    \/ \E i \in ConcProcs : CUnlink(i)
    \/ \E i \in ConcProcs : CMkdir(i)
    \/ \E i \in ConcProcs : CStat(i)

SpecConc == InitConc /\ [][NextConc]_vars

\* ------------------------------------------------------------- readStdin
\* Strings are sequences of characters.
Whitespace == {" ", "\n"}
RECURSIVE TrimStart(_)
TrimStart(t) ==
    IF t # <<>> /\ Head(t) \in Whitespace THEN TrimStart(Tail(t)) ELSE t
RECURSIVE TrimEnd(_)
TrimEnd(t) ==
    IF t # <<>> /\ t[Len(t)] \in Whitespace THEN TrimEnd(SubSeq(t, 1, Len(t) - 1)) ELSE t
\* String.prototype.trim
Trim(t) == TrimEnd(TrimStart(t))

\* the chunks a 'data' event of readStdin may carry
RsChunks == { <<" ">>, <<"a">>, <<"b", " ">> }
AllListeners == {"data", "end", "error"}

Appended_front(inp, chunk) == chunk \o inp

\* input += chunk
Appended(inp, chunk) == inp \o chunk

TimerResolves_unguarded(h, r) == ~h

TimerResolves_inverted(h, r) == h /\ ~r

\* if (!hasData && !resolved) of the timer callback
TimerResolves(h, r) == ~h /\ ~r

\* input.trim() || null
EndValue(inp) == IF Trim(inp) = <<>> THEN NullValue ELSE StringValue(Trim(inp))

\* resolve(v) called from handler `by`: only the first call settles the promise
RsResolve(v, by) ==
    /\ rsResolves' = rsResolves + 1
    /\ rsResult' = IF rsResolves = 0 THEN v ELSE rsResult
    /\ rsBy' = IF rsResolves = 0 THEN by ELSE rsBy

\* cleanup(): the three listeners removed, stdin paused
RsCleanup ==
    /\ stdinListeners' = stdinListeners \ AllListeners
    /\ stdinFlowing' = FALSE

InitStdin ==
    /\ fs = EmptyFS /\ cwd = Root /\ fsBefore = fs /\ last = NoCall
    /\ FeIdle
    /\ ConcIdle
    /\ PcIdle
    /\ StdinIdle
    /\ LibIdle
    /\ testEnv \in BOOLEAN
    /\ isTTY \in BOOLEAN
    /\ rsPc = "start" /\ input = <<>> /\ hasData = FALSE /\ resolved = FALSE
    /\ timeout = "unset" /\ rsResolves = 0 /\ rsResult = NullValue /\ rsBy = "none"

\* readStdin() is called and its promise executor runs: on a terminal
\* outside the test environment it resolves null at once, otherwise it arms
\* the timer, registers the listeners and resumes stdin
RsCall ==
    /\ rsPc = "start"
    /\ rsPc' = "called"
    /\ IF ~testEnv /\ isTTY
       THEN /\ RsResolve(NullValue, "tty")
            /\ UNCHANGED <<timeout, stdinListeners, stdinFlowing>>
       ELSE /\ timeout' = "armed"
            /\ stdinListeners' = stdinListeners \cup AllListeners
            /\ stdinFlowing' = TRUE
            /\ UNCHANGED <<rsResolves, rsResult, rsBy>>
    /\ UNCHANGED <<libVars, storeVars, feVars, concVars, pcVars, testEnv, isTTY, stdinState,
                   stdinSeen, input, hasData, resolved>>

\* the timer fires
RsTimeout ==
    /\ timeout = "armed"
    /\ timeout' = "fired"
    /\ IF TimerResolves(hasData, resolved)
       THEN /\ resolved' = TRUE
            /\ RsCleanup
            /\ RsResolve(NullValue, "timer")
       ELSE UNCHANGED <<resolved, stdinListeners, stdinFlowing, rsResolves, rsResult, rsBy>>
    /\ UNCHANGED <<libVars, storeVars, feVars, concVars, pcVars, testEnv, isTTY, stdinState,
                   stdinSeen, rsPc, input, hasData>>

\* a chunk arrives on stdin: a flowing stream hands it to onData, a paused
\* one keeps it
RsData(chunk) ==
    /\ rsPc = "called"
    /\ stdinState = "open"
    /\ Len(stdinSeen) < MaxChunks
    /\ stdinSeen' = Append(stdinSeen, chunk)
    /\ IF stdinFlowing /\ "data" \in stdinListeners
       THEN /\ hasData' = TRUE
            /\ timeout' = IF timeout = "armed" THEN "cleared" ELSE timeout
            /\ input' = Appended(input, chunk)
       ELSE UNCHANGED <<hasData, timeout, input>>
    /\ UNCHANGED <<libVars, storeVars, feVars, concVars, pcVars, testEnv, isTTY, stdinListeners,
                   stdinFlowing, stdinState, rsPc, resolved, rsResolves, rsResult, rsBy>>

\* the flowing stream reaches its end: 'end' is emitted
RsEnd ==
    /\ rsPc = "called"
    /\ stdinState = "open"
    /\ stdinFlowing
    /\ stdinState' = "ended"
    /\ IF "end" \in stdinListeners /\ ~resolved
       THEN /\ resolved' = TRUE
            /\ RsCleanup
            /\ RsResolve(EndValue(input), "end")
       ELSE UNCHANGED <<resolved, stdinListeners, stdinFlowing, rsResolves, rsResult, rsBy>>
    /\ UNCHANGED <<libVars, storeVars, feVars, concVars, pcVars, testEnv, isTTY, stdinSeen,
                   rsPc, input, hasData, timeout>>

\* the stream fails: 'error' is emitted
RsError ==
    /\ rsPc = "called"
    /\ stdinState = "open"
    /\ stdinState' = "errored"
    /\ IF "error" \in stdinListeners /\ ~resolved
       THEN /\ resolved' = TRUE
            /\ timeout' = IF timeout = "armed" THEN "cleared" ELSE timeout
            /\ RsCleanup
            /\ RsResolve(NullValue, "error")
       ELSE UNCHANGED <<resolved, timeout, stdinListeners, stdinFlowing, rsResolves,
                        rsResult, rsBy>>
    /\ UNCHANGED <<libVars, storeVars, feVars, concVars, pcVars, testEnv, isTTY, stdinSeen,
                   rsPc, input, hasData>>

NextStdin ==
    \/ RsCall
    \/ RsTimeout
    \/ \E chunk \in RsChunks : RsData(chunk)
    \/ RsEnd
    \/ RsError

SpecStdin == InitStdin /\ [][NextStdin]_vars

\* the same with a timer that, once armed and not cleared, does fire
SpecStdinTimer == InitStdin /\ [][NextStdin]_vars /\ WF_vars(RsTimeout)

\* ---------------------------------------------------- promptConfirmation
\* the chunks a user may type: answers the handler is to take for yes, for
\* no, and others
YesChunks == { <<"y">>, <<"Y", "E", "S", "\n">> }
NoChunks == { <<"n", "\n">>, <<" ", "N", "o", " ">> }
OtherChunks == { <<"x">>, <<"\n">>, <<"y", "y">> }
PcChunks == YesChunks \cup NoChunks \cup OtherChunks

\* String.prototype.toLowerCase
LowerOf(c) ==
    CASE c = "Y" -> "y" [] c = "E" -> "e" [] c = "S" -> "s"
      [] c = "N" -> "n" [] c = "O" -> "o" [] OTHER -> c
ToLowerCase(t) == [i \in 1..Len(t) |-> LowerOf(t[i])]

Normalised_nolower(chunk) == Trim(chunk)

\* chunk.toString().trim().toLowerCase()
Normalised(chunk) == ToLowerCase(Trim(chunk))

\* input === 'y' || input === 'yes', input === 'n' || input === 'no'
IsYes(inp) == inp = <<"y">> \/ inp = <<"y", "e", "s">>
IsNo(inp) == inp = <<"n">> \/ inp = <<"n", "o">>

InitPrompt ==
    /\ fs = EmptyFS /\ cwd = Root /\ fsBefore = fs /\ last = NoCall
    /\ FeIdle
    /\ ConcIdle
    /\ RsIdle
    /\ StdinIdle
    /\ LibIdle
    /\ testEnv \in BOOLEAN
    /\ isTTY = TRUE
    /\ pcPc = "start" /\ pcResolves = 0 /\ pcResult = FALSE /\ pcPrompts = 0

\* promptConfirmation(message) is called: true at once in the test
\* environment, otherwise the message and the prompt are written, the data
\* listener is registered and stdin resumed
PcCall ==
    /\ pcPc = "start"
    /\ pcPc' = "called"
    /\ IF testEnv
       THEN /\ pcResolves' = pcResolves + 1
            /\ pcResult' = TRUE
            /\ UNCHANGED <<pcPrompts, stdinListeners, stdinFlowing>>
       ELSE /\ pcPrompts' = pcPrompts + 1
            /\ stdinListeners' = stdinListeners \cup {"data"}
            /\ stdinFlowing' = TRUE
            /\ UNCHANGED <<pcResolves, pcResult>>
    /\ UNCHANGED <<libVars, storeVars, feVars, concVars, rsVars, testEnv, isTTY, stdinState,
                   stdinSeen>>

\* resolve(v): only the first call settles the promise
PcResolve(v) ==
    /\ pcResolves' = pcResolves + 1
    /\ pcResult' = IF pcResolves = 0 THEN v ELSE pcResult

\* a chunk arrives on stdin: a flowing stream hands it to handleInput, a
\* paused one keeps it
PcData(chunk) ==
    /\ pcPc = "called"
    /\ stdinState = "open"
    /\ Len(stdinSeen) < MaxInputs
    /\ stdinSeen' = Append(stdinSeen, chunk)
    /\ IF stdinFlowing /\ "data" \in stdinListeners
       THEN IF IsYes(Normalised(chunk)) \/ IsNo(Normalised(chunk))
            THEN /\ stdinListeners' = stdinListeners \ {"data"}
                 /\ stdinFlowing' = FALSE
                 /\ PcResolve(IsYes(Normalised(chunk)))
                 /\ UNCHANGED pcPrompts
            ELSE /\ pcPrompts' = pcPrompts + 1
                 /\ UNCHANGED <<stdinListeners, stdinFlowing, pcResolves, pcResult>>
       ELSE UNCHANGED <<stdinListeners, stdinFlowing, pcResolves, pcResult, pcPrompts>>
    /\ UNCHANGED <<libVars, storeVars, feVars, concVars, rsVars, testEnv, isTTY, stdinState, pcPc>>

\* the flowing stream reaches its end: 'end' has no listener here
PcEnd ==
    /\ pcPc = "called"
    /\ stdinState = "open"
    /\ stdinFlowing
    /\ stdinState' = "ended"
    /\ UNCHANGED <<libVars, storeVars, feVars, concVars, rsVars, pcVars, testEnv, isTTY,
                   stdinListeners, stdinFlowing, stdinSeen>>

NextPrompt ==
    \/ PcCall
    \/ \E chunk \in PcChunks : PcData(chunk)
    \/ PcEnd

SpecPrompt == InitPrompt /\ [][NextPrompt]_vars


\* ------------------------------------------------ the command error hierarchy
\* if (cause): an Error object is truthy, undefined is not
Truthy(cause) == cause # Undefined

\* the base constructor without the assignment of the standard cause property
CommandError_nocause(message, code, recoverable, cause) ==
    [class |-> "CommandError", name |-> "CommandError", message |-> message,
     code |-> code, recoverable |-> recoverable,
     originalCause |-> cause, cause |-> Undefined, extra |-> <<>>]

\* new CommandError(message, code, recoverable, cause)
CommandError(message, code, recoverable, cause) ==
    [class |-> "CommandError", name |-> "CommandError", message |-> message,
     code |-> code, recoverable |-> recoverable,
     originalCause |-> cause,
     cause |-> IF Truthy(cause) THEN cause ELSE Undefined,
     extra |-> <<>>]

\* the object a subclass constructor leaves: super(...) then this.name = ...
Subclass(base, className, extra) ==
    [base EXCEPT !.class = className, !.name = className, !.extra = extra]

ConfigurationError(message, cause) ==
    Subclass(CommandError(<<message>>, "CONFIG_ERROR", FALSE, cause),
             "ConfigurationError", <<>>)

ValidationError(message, cause) ==
    Subclass(CommandError(<<message>>, "VALIDATION_ERROR", FALSE, cause),
             "ValidationError", <<>>)

CancelledByUser == "Operation cancelled by user"
UserCancellationError(message) ==
    Subclass(CommandError(<<IF message = Undefined THEN CancelledByUser ELSE message>>,
                          "USER_CANCELLED", TRUE, Undefined),
             "UserCancellationError", <<>>)

ExternalDependencyError(message, dependency, cause) ==
    Subclass(CommandError(<<dependency, ": ", message>>,
                          "EXTERNAL_DEPENDENCY_ERROR", FALSE, cause),
             "ExternalDependencyError", <<>>)

FileOperationError(message, filePath, cause) ==
    Subclass(CommandError(<<"File operation failed on ", filePath, ": ", message>>,
                          "FILE_OPERATION_ERROR", FALSE, cause),
             "FileOperationError", <<>>)

PullRequestCheckError(message, prNumber, failedChecks, prUrl, currentBranch) ==
    Subclass(CommandError(<<message>>, "PR_CHECK_FAILED", TRUE, Undefined),
             "PullRequestCheckError", <<prNumber, failedChecks, prUrl, currentBranch>>)

\* the arguments the constructors are called with
ErrMessages == {"m1", "m2"}
ErrCauses == {Undefined, "E1", "E2"}
ErrCodes == {"CONFIG_ERROR", "CUSTOM"}
\* the third argument of the base constructor: left out (it defaults to
\* false) or given
RecoverableArgs == {"omitted", "false", "true"}
RecoverableOf(arg) == arg = "true"
ErrDependencies == {"git"}
ErrFilePaths == {"/a"}
ErrBranches == {Undefined, "main"}

\* a constructor has run: the object it built becomes the latest
Built(object, causeArg) ==
    /\ errPrevious' = errLatest
    /\ errLatest' = object
    /\ errCauseArg' = causeArg
    /\ UNCHANGED <<storeVars, feVars, concVars, ioVars, valVars>>

New_CommandError ==
    \E m \in ErrMessages, code \in ErrCodes, r \in RecoverableArgs, c \in ErrCauses :
        Built(CommandError(<<m>>, code, RecoverableOf(r), c), c)

New_ConfigurationError ==
    \E m \in ErrMessages, c \in ErrCauses : Built(ConfigurationError(m, c), c)

New_ValidationError ==
    \E m \in ErrMessages, c \in ErrCauses : Built(ValidationError(m, c), c)

New_UserCancellationError ==
    \E m \in ErrMessages \cup {Undefined} : Built(UserCancellationError(m), Undefined)

New_ExternalDependencyError ==
    \E m \in ErrMessages, d \in ErrDependencies, c \in ErrCauses :
        Built(ExternalDependencyError(m, d, c), c)

New_FileOperationError ==
    \E m \in ErrMessages, p \in ErrFilePaths, c \in ErrCauses :
        Built(FileOperationError(m, p, c), c)

New_PullRequestCheckError ==
    \E m \in ErrMessages, b \in ErrBranches :
        Built(PullRequestCheckError(m, "7", "lint", "url", b), Undefined)

\* nothing built yet; the storage layer and the terminal stay untouched
InitErrors ==
    /\ fs = EmptyFS /\ cwd = Root /\ fsBefore = fs /\ last = NoCall
    /\ FeIdle
    /\ ConcIdle
    /\ IoIdle
    /\ LibIdle

NextErrors ==
    \/ New_CommandError
    \/ New_ConfigurationError
    \/ New_ValidationError
    \/ New_UserCancellationError
    \/ New_ExternalDependencyError
    \/ New_FileOperationError
    \/ New_PullRequestCheckError

SpecErrors == InitErrors /\ [][NextErrors]_vars


\* ------------------------------------------------ runtime validation helpers
\* the values the helpers are called with: strings (one token a character),
\* numbers, a boolean, null, undefined, arrays, a plain object, an object
\* without prototype (Object.create(null)) and an Error
StringOf(text) == JsValue("string", text)
NumberOf(text) == JsValue("number", text)
NaNValue == NumberOf(<<"NaN">>)
NullOf == JsValue("null", <<>>)
UndefinedOf == JsValue("undefined", <<>>)
ArrayOf(text) == JsValue("array", text)
PlainObject == JsValue("object", <<>>)
BareObject == JsValue("bare", <<>>)
\* an Error object, held as its name and message
ErrorValue(name, message) == JsValue("error", <<name, ": ">> \o message)

JsValues ==
    { StringOf(<<"a">>), StringOf(<<>>), StringOf(<<" ">>), StringOf(<<" ", "a">>),
      NumberOf(<<"1">>), NaNValue, JsValue("boolean", <<"true">>),
      NullOf, UndefinedOf, ArrayOf(<<>>), ArrayOf(<<"a">>),
      PlainObject, BareObject, ErrorValue("Error", <<"boom">>) }

\* typeof x
TypeOf(x) ==
    IF x.t \in {"string", "number", "boolean", "undefined"} THEN x.t ELSE "object"
IsArray(x) == x.t = "array"
IsNaN(x) == x = NaNValue

\* the outcome of a call: a value returned or a value thrown
Returns(x) == [returns |-> TRUE, value |-> x]
Throws(x) == [returns |-> FALSE, value |-> x]

\* String(x) and `${x}`: the text of a primitive, an array's elements joined,
\* "[object Object]" for a plain object, name and message for an Error; an
\* object without prototype has no toString and the conversion throws
CannotConvert == ErrorValue("TypeError", <<"Cannot convert object to primitive value">>)
ToStringJS(x) ==
    CASE x.t = "null" -> Returns(StringOf(<<"null">>))
      [] x.t = "undefined" -> Returns(StringOf(<<"undefined">>))
      [] x.t = "object" -> Returns(StringOf(<<"[object Object]">>))
      [] x.t = "bare" -> Throws(CannotConvert)
      [] OTHER -> Returns(StringOf(x.v))

\* fieldName: string = 'value'
FieldName(arg) == IF arg = Undefined THEN "value" ELSE arg

validateString(value, fieldName) ==
    IF TypeOf(value) # "string"
    THEN Throws(ErrorValue("Error", <<FieldName(fieldName), " must be a string">>))
    ELSE Returns(value)

validateNumber(value, fieldName) ==
    IF TypeOf(value) # "number" \/ IsNaN(value)
    THEN Throws(ErrorValue("Error", <<FieldName(fieldName), " must be a valid number">>))
    ELSE Returns(value)

validateBoolean(value, fieldName) ==
    IF TypeOf(value) # "boolean"
    THEN Throws(ErrorValue("Error", <<FieldName(fieldName), " must be a boolean">>))
    ELSE Returns(value)

validateArray(value, fieldName) ==
    IF ~IsArray(value)
    THEN Throws(ErrorValue("Error", <<FieldName(fieldName), " must be an array">>))
    ELSE Returns(value)

validateObject(value, fieldName) ==
    IF TypeOf(value) # "object" \/ value = NullOf \/ IsArray(value)
    THEN Throws(ErrorValue("Error", <<FieldName(fieldName), " must be an object">>))
    ELSE Returns(value)

validateNonEmptyString(value, fieldName) ==
    LET str == validateString(value, fieldName)
    IN  IF ~str.returns THEN str
        ELSE IF Len(Trim(str.value.v)) = 0
        THEN Throws(ErrorValue("Error", <<FieldName(fieldName), " must not be empty">>))
        ELSE Returns(str.value)

\* allowedValues.join(', ') of a list of strings and numbers
RECURSIVE Join(_)
Join(values) ==
    IF values = <<>> THEN <<>>
    ELSE IF Len(values) = 1 THEN values[1].v
    ELSE values[1].v \o <<", ">> \o Join(Tail(values))

\* allowedValues.includes(value): primitives compare by value, NaN included
Includes(allowedValues, value) ==
    \E i \in 1..Len(allowedValues) : allowedValues[i] = value

validateEnum(value, allowedValues, fieldName) ==
    IF ~Includes(allowedValues, value)
    THEN LET got == ToStringJS(value)
         IN  IF ~got.returns THEN got
             ELSE Throws(ErrorValue("Error",
                    <<FieldName(fieldName), " must be one of: ">> \o Join(allowedValues)
                        \o <<". Got: ">> \o got.value.v))
    ELSE Returns(value)

\* the schemas validate is given: the helpers above as custom validators, one
\* that yields a value of its own, and two whose parse throws something that
\* is not an Error
Schemas ==
    {"string", "number", "nonEmptyString", "object", "trimmed", "throwsText", "throwsBare"}

\* schema.parse(data)
Parse(schema, data) ==
    CASE schema = "string" -> validateString(data, Undefined)
      [] schema = "number" -> validateNumber(data, Undefined)
      [] schema = "nonEmptyString" -> validateNonEmptyString(data, Undefined)
      [] schema = "object" -> validateObject(data, Undefined)
      [] schema = "trimmed" ->
            IF TypeOf(data) = "string" THEN Returns(StringOf(Trim(data.v)))
            ELSE Throws(ErrorValue("ZodError", <<"expected string">>))
      [] schema = "throwsText" -> Throws(StringOf(<<"bad">>))
      [] schema = "throwsBare" -> Throws(BareObject)

\* what the caller of validate gets: a result object, or an exception when
\* the conversion inside the catch block throws
ValidationResult(success, data, error) ==
    [raised |-> FALSE, success |-> success, result |-> data, error |-> error]
Raised(x) ==
    [raised |-> TRUE, success |-> FALSE, result |-> x, error |-> <<>>]

validate(data, schema) ==
    LET validated == Parse(schema, data)
    IN  IF validated.returns
        THEN ValidationResult(TRUE, validated.value, <<>>)
        ELSE LET text == ToStringJS(validated.value)
             IN  IF text.returns
                 THEN ValidationResult(FALSE, UndefinedOf, text.value.v)
                 ELSE Raised(text.value)

\* what the caller of a single-type validator gets
Outcome(o) ==
    IF o.returns THEN ValidationResult(TRUE, o.value, <<>>) ELSE Raised(o.value)

FieldNames == {Undefined, "f"}
AllowedLists ==
    { <<>>, <<StringOf(<<"a">>)>>, <<StringOf(<<"a">>), NumberOf(<<"1">>)>>, <<NaNValue>> }

\* a helper was called and came back
Called(fn, value, fieldName, allowed, schema, o) ==
    /\ vLast' = [fn |-> fn, value |-> value, fieldName |-> fieldName,
                 allowed |-> allowed, schema |-> schema, raised |-> o.raised,
                 success |-> o.success, result |-> o.result, error |-> o.error]
    /\ UNCHANGED <<storeVars, feVars, concVars, ioVars, errVars>>

Do_validate ==
    \E data \in JsValues, schema \in Schemas :
        Called("validate", data, Undefined, <<>>, schema, validate(data, schema))

Do_validateString ==
    \E value \in JsValues, f \in FieldNames :
        Called("validateString", value, f, <<>>, "none", Outcome(validateString(value, f)))

Do_validateNumber ==
    \E value \in JsValues, f \in FieldNames :
        Called("validateNumber", value, f, <<>>, "none", Outcome(validateNumber(value, f)))

Do_validateBoolean ==
    \E value \in JsValues, f \in FieldNames :
        Called("validateBoolean", value, f, <<>>, "none", Outcome(validateBoolean(value, f)))

Do_validateArray ==
    \E value \in JsValues, f \in FieldNames :
        Called("validateArray", value, f, <<>>, "none", Outcome(validateArray(value, f)))

Do_validateObject ==
    \E value \in JsValues, f \in FieldNames :
        Called("validateObject", value, f, <<>>, "none", Outcome(validateObject(value, f)))

Do_validateNonEmptyString ==
    \E value \in JsValues, f \in FieldNames :
        Called("validateNonEmptyString", value, f, <<>>, "none",
               Outcome(validateNonEmptyString(value, f)))

Do_validateEnum ==
    \E value \in JsValues, allowed \in AllowedLists, f \in FieldNames :
        Called("validateEnum", value, f, allowed, "none",
               Outcome(validateEnum(value, allowed, f)))

InitValidate == InitErrors

NextValidate ==
    \/ Do_validate
    \/ Do_validateString
    \/ Do_validateNumber
    \/ Do_validateBoolean
    \/ Do_validateArray
    \/ Do_validateObject
    \/ Do_validateNonEmptyString
    \/ Do_validateEnum

SpecValidate == InitValidate /\ [][NextValidate]_vars

\* ================================================================ claims
\* node of the path the latest call was made on, and what was there before
LastNode == Resolve(cwd, last.path)
KindBefore == Lookup(fsBefore, LastNode).kind

\* C1 (as stated): whenever ensureDirectory(P) is called and an ancestor A of
\* P is a regular file, the call fails and its error names a path that is A.
C1_ObstructionIdentified ==
    (last.op = "ensureDirectory" /\ BlockedByFile(fsBefore, LastNode)) =>
        /\ ~last.ok
        /\ last.err.tmpl = "Blocked"
        /\ Resolve(cwd, last.err.at) = BlockingAncestor(fsBefore, LastNode)

\* C2: when ensureDirectory(P) returns normally for a P at which nothing
\* existed, P exists and is a directory, and ensureDirectory(P) called again
\* returns normally and leaves the filesystem as it is.
C2_DirectoryRoundTrip ==
    (last.op = "ensureDirectory" /\ last.ok /\ ~exists(fsBefore, cwd, last.path).bool) =>
        /\ exists(fs, cwd, last.path) = OkBool(fs, TRUE)
        /\ isDirectory(fs, cwd, last.path) = OkBool(fs, TRUE)
        /\ ensureDirectory(fs, cwd, last.path) = Ok(fs)

\* C2 witness: ensureDirectory has created a two-segment path and its parent.
C2_Witness ==
    /\ last.op = "ensureDirectory" /\ last.ok
    /\ Len(LastNode) >= 2
    /\ Lookup(fsBefore, Parent(LastNode)).kind = "none"
    /\ fs[LastNode].kind = "dir"

\* the operation of the latest call, applied once more to the same path
LastAgain ==
    IF last.op = "deleteFile" THEN deleteFile(fs, cwd, last.path)
    ELSE removeDirectory(fs, cwd, last.path)

\* C3: deleteFile and removeDirectory on an absent path return normally and
\* change nothing, and so does the same call made again; after a successful
\* deleteFile or removeDirectory the same call made again returns normally.
C3_IdempotentRemoval ==
    (last.op \in {"deleteFile", "removeDirectory"}) =>
        /\ KindBefore = "none" => (last.ok /\ fs = fsBefore /\ LastAgain = Ok(fs))
        /\ last.ok => ~Threw(LastAgain)

\* C3 witness: deleteFile was called on a path below a missing directory.
C3_Witness ==
    /\ last.op = "deleteFile" /\ last.ok
    /\ KindBefore = "none"
    /\ Len(LastNode) >= 2 /\ Lookup(fsBefore, Parent(LastNode)).kind = "none"

\* C8 (as stated): every call that fails rejects with an error made by the
\* layer that names the path of the call.
C8_AllFailuresWrapped ==
    (last.op # "none" /\ ~last.ok) =>
        (last.err.kind = "layer" /\ last.err.path = last.path)

\* C9: on a path at which nothing exists, exists, isReadable and isWritable
\* return false, and isDirectory and isFile fail.
C9_AbsentPathPredicates ==
    KindBefore = "none" =>
        /\ last.op \in {"exists", "isReadable", "isWritable"} =>
              (last.ok /\ last.bool = FALSE)
        /\ last.op \in {"isDirectory", "isFile"} =>
              (~last.ok /\ last.err.code \in {"ENOENT", "ENOTDIR"})

\* C9 witness: exists has answered false for a path whose parent is missing.
C9_Witness ==
    /\ last.op = "exists" /\ last.ok /\ ~last.bool
    /\ Len(LastNode) >= 2 /\ Lookup(fsBefore, Parent(LastNode)).kind = "none"

\* C10 (as stated): ensureDirectory, listFiles and removeDirectory on a
\* regular file, and readFile and deleteFile on a directory, fail with an
\* error naming the path and leave the filesystem unchanged.
C10_TypeMismatchFails ==
    (\/ last.op \in {"ensureDirectory", "listFiles", "removeDirectory"} /\ KindBefore = "file"
     \/ last.op \in {"readFile", "deleteFile"} /\ KindBefore = "dir") =>
        (~last.ok /\ last.err.path = last.path /\ fs = fsBefore)

\* what was at the path of the latest call, before it
EntryBefore == Lookup(fsBefore, LastNode)

\* C11: isFileReadable, isDirectoryWritable and isDirectoryReadable never
\* fail, and return true exactly when the path held an entry of the kind
\* asked for with the permission asked for, which is the conjunction of the
\* three predicates they are made of (a failing isFile or isDirectory, on an
\* absent path, standing for a query that must not be made).
C11_CompositePredicates ==
    /\ last.op = "isFileReadable" =>
          /\ last.ok
          /\ last.bool = (EntryBefore.kind = "file" /\ "r" \in EntryBefore.perm)
          /\ last.bool = ( /\ exists(fsBefore, cwd, last.path).bool
                           /\ isFile(fsBefore, cwd, last.path).bool
                           /\ isReadable(fsBefore, cwd, last.path).bool )
    /\ last.op = "isDirectoryWritable" =>
          /\ last.ok
          /\ last.bool = (EntryBefore.kind = "dir" /\ "w" \in EntryBefore.perm)
          /\ last.bool = ( /\ exists(fsBefore, cwd, last.path).bool
                           /\ isDirectory(fsBefore, cwd, last.path).bool
                           /\ isWritable(fsBefore, cwd, last.path).bool )
    /\ last.op = "isDirectoryReadable" =>
          /\ last.ok
          /\ last.bool = (EntryBefore.kind = "dir" /\ "r" \in EntryBefore.perm)
          /\ last.bool = ( /\ exists(fsBefore, cwd, last.path).bool
                           /\ isDirectory(fsBefore, cwd, last.path).bool
                           /\ isReadable(fsBefore, cwd, last.path).bool )

\* C11 witness: isFileReadable was asked about an absent path and said false.
C11_Witness ==
    /\ last.op = "isFileReadable" /\ last.ok /\ ~last.bool
    /\ EntryBefore.kind = "none"

\* the parent directory of the path of the latest call existed and was
\* writable when the call started
ParentWritableBefore ==
    /\ LastNode # Root
    /\ Lookup(fsBefore, Parent(LastNode)).kind = "dir"
    /\ "w" \in Lookup(fsBefore, Parent(LastNode)).perm

\* the read that follows the write of the latest call
ReadBack == readFile(fs, cwd, last.path)

\* C12 (as stated): whenever the parent directory of P exists and is
\* writable, writeFile(P, d, 'utf8') succeeds for every text d and the
\* readFile(P, 'utf8') that follows returns exactly d.
C12_WriteThenRead ==
    (last.op = "writeFile" /\ ParentWritableBefore) =>
        /\ last.ok
        /\ ReadBack = OkData(fs, last.arg)

\* C12 (amended): if moreover P is absent or a regular file that is both
\* readable and writable, and d is well-formed text (every surrogate paired),
\* then writeFile(P, d, 'utf8') succeeds and the readFile(P, 'utf8') that
\* follows returns exactly d, whatever P held before, and changes nothing.
C12_WriteThenReadAmended ==
    ( /\ last.op = "writeFile"
      /\ ParentWritableBefore
      /\ \/ EntryBefore.kind = "none"
         \/ EntryBefore.kind = "file" /\ EntryBefore.perm = AllPerm
      /\ WellFormed(last.arg) ) =>
        /\ last.ok
        /\ ReadBack = OkData(fs, last.arg)

\* C12 witness: a file holding other content was overwritten and reads back
\* as what was written.
C12_Witness ==
    /\ last.op = "writeFile" /\ last.ok /\ ParentWritableBefore
    /\ EntryBefore.kind = "file" /\ EntryBefore.perm = AllPerm
    /\ EntryBefore.data # NoData
    /\ EntryBefore.data # EncodeUtf8(last.arg)
    /\ WellFormed(last.arg)
    /\ ReadBack = OkData(fs, last.arg)

\* the digest of the text of the file the latest call was about
DigestBefore == Sha256Hex(DecodeUtf8(EntryBefore.data))
LowerHex == { HexDigits[i] : i \in 1..Len(HexDigits) }

\* what C13 says of a hashFile(P, n) that has returned: the first
\* min(n, 64) characters of the lowercase hexadecimal digest of the decoded
\* text, the same from a second call, and the filesystem as it was
HashAsClaimed ==
    /\ last.ok
    /\ Len(last.data) = (IF last.n < HexLen THEN last.n ELSE HexLen)
    /\ \A i \in 1..Len(last.data) :
          last.data[i] = DigestBefore[i] /\ last.data[i] \in LowerHex
    /\ Len(DigestBefore) = HexLen
    /\ fs = fsBefore
    /\ hashFile(fs, cwd, last.path, last.n) = OkData(fs, last.data)

\* C13 (as stated): for every existing file P and every n >= 0, hashFile(P, n)
\* returns the first min(n, 64) characters of the lowercase hexadecimal
\* digest of the decoded text, twice the same, and modifies nothing.
C13_HashTruncation ==
    (last.op = "hashFile" /\ last.n >= 0 /\ EntryBefore.kind = "file") =>
        HashAsClaimed

\* C13 (amended): the same for every existing file P that is readable.
C13_HashTruncationAmended ==
    ( /\ last.op = "hashFile" /\ last.n >= 0
      /\ EntryBefore.kind = "file" /\ "r" \in EntryBefore.perm ) =>
        HashAsClaimed

\* C13 witness: hashFile(P, 8) returned 8 characters for a readable file.
C13_Witness ==
    /\ last.op = "hashFile" /\ last.ok /\ last.n = 8 /\ Len(last.data) = 8
    /\ EntryBefore.kind = "file" /\ "r" \in EntryBefore.perm

\* the entries of a filesystem with their kinds
Kinds(f) == [n \in DOMAIN f |-> f[n].kind]
\* P and the ancestors of P that were missing when the latest call started
MissingBefore ==
    { Pre(LastNode, k) : k \in 0..Len(LastNode) } \ (Entries(fsBefore) \cup {Root})

\* C16: an ensureDirectory(P) that fails, or that finds P a directory, leaves
\* the entries and their kinds as they were; the entries change only by a
\* successful call on an absent P, which adds P and its missing ancestors
\* as directories and touches nothing else.
C16_EnsureDirectoryFrame ==
    last.op = "ensureDirectory" =>
        /\ (~last.ok \/ KindBefore = "dir") => Kinds(fs) = Kinds(fsBefore)
        /\ Kinds(fs) # Kinds(fsBefore) =>
              /\ last.ok /\ KindBefore = "none"
              /\ Entries(fs) \ Entries(fsBefore) = MissingBefore
              /\ \A n \in MissingBefore : fs[n].kind = "dir"
              /\ \A n \in DOMAIN fs \ MissingBefore : fs[n] = fsBefore[n]
        /\ (last.ok /\ KindBefore = "none") => LastNode \in MissingBefore

\* C16 witness: ensureDirectory failed below a regular file and the
\* filesystem is as it was.
C16_Witness ==
    /\ last.op = "ensureDirectory" /\ ~last.ok
    /\ BlockedByFile(fsBefore, LastNode)
    /\ Kinds(fs) = Kinds(fsBefore)

\* the names the matcher is to return for the run: the matching files
FeMatched == { n \in FeNames : feListing[n] = "file" /\ Matches(fePattern, n) }
CallsFor(n) == { i \in DOMAIN feCalls : feCalls[i] = PathJoin(feDir, n) }

\* C4: at most one invocation of the visitor is pending, it is the latest
\* one, and the invocations were made in the order the matcher returned.
C4_Sequential ==
    /\ Cardinality(feRunning) <= 1
    /\ feRunning \subseteq {Len(feCalls)}
    /\ Len(feCalls) <= Len(feFiles)
    /\ \A i \in DOMAIN feCalls : feCalls[i] = PathJoin(feDir, feFiles[i])

\* C4 witness: the second invocation is pending, the first has settled.
C4_Witness == Len(feCalls) = 2 /\ feRunning = {2}

\* C5: when forEachFileIn resolves, the visitor was invoked exactly once for
\* each matching file, with the directory joined with its name, and for
\* nothing else; no invocation is ever made for a directory.
C5_Scope ==
    /\ \A n \in FeNames : feListing[n] # "file" => CallsFor(n) = {}
    /\ \A i \in DOMAIN feCalls : \E n \in FeMatched : i \in CallsFor(n)
    /\ fePc = "resolved" => \A n \in FeMatched : Cardinality(CallsFor(n)) = 1
    /\ (fePc = "rejected" /\ FeMatched = {}) => feThrown = NoErr

\* C5 witness: a run over two matching files and a matching directory is over.
C5_Witness ==
    /\ fePc = "resolved" /\ Len(feCalls) = 2
    /\ feListing[SubSD] = "dir" /\ Matches(fePattern, SubSD)

\* C6 (as stated): when an invocation of the visitor fails with E,
\* forEachFileIn fails with E itself.
C6_VisitorErrorUnmodified ==
    (fePc = "rejected" /\ feThrown # NoErr) => feErr = feThrown

\* C7: once the invocation for the i-th path has failed, forEachFileIn has
\* failed, no invocation was made after the i-th and none is pending, and the
\* failed path was passed to the visitor once.
C7_FirstFailureAborts ==
    feFailedAt # 0 =>
        /\ fePc = "rejected" /\ feErr # NoErr
        /\ Len(feCalls) = feFailedAt
        /\ feRunning = {}
        /\ Cardinality({ i \in DOMAIN feCalls : feCalls[i] = feCalls[feFailedAt] }) = 1

\* C7 witness: the first of two invocations has failed.
C7_Witness == feFailedAt = 1 /\ Len(feFiles) = 2

\* ------------------------------------------------ claims: concurrent calls
\* both calls have completed
ConcDone == \A i \in ConcProcs : cPc[i] = "done"
Failed(i) == cErr[i] # NoErr

C15_ConcurrentEnsure ==
    ( /\ cOp = "ensureDirectory" /\ ConcDone
      /\ Lookup(fsBefore, CNode).kind = "none"
      /\ ~Threw(ensureDirectory(fsBefore, cwd, cPath)) ) =>
        /\ \A i \in ConcProcs : ~Failed(i)
        /\ Lookup(fs, CNode).kind = "dir"
        /\ isDirectory(fs, cwd, cPath) = OkBool(fs, TRUE)

\* C15 witness: both calls saw P absent, both ran mkdir on a path of two
\* missing segments, and both completed without error.
C15_Witness ==
    /\ cOp = "ensureDirectory" /\ ConcDone
    /\ ~cSaw[1] /\ ~cSaw[2]
    /\ Len(CNode) >= 2 /\ Lookup(fsBefore, Parent(CNode)).kind = "none"
    /\ \A i \in ConcProcs : ~Failed(i)
    /\ Lookup(fs, CNode).kind = "dir"

\* ----------------------------------------------------------- claims: stdin
RECURSIVE Flatten(_)
Flatten(chunks) ==
    IF chunks = <<>> THEN <<>> ELSE Head(chunks) \o Flatten(Tail(chunks))

\* readStdin went the way of the listeners (not the terminal shortcut)
RsListening == rsPc = "called" /\ (testEnv \/ ~isTTY)

\* C17: resolve is called at most once in a call of readStdin; from then on
\* its three listeners are off process.stdin and stdin is paused, and no
\* later timer or stream event calls resolve again or changes the result.
C17_ResolvesAtMostOnce ==
    /\ [](/\ rsResolves <= 1
          /\ rsResolves = 1 => (stdinListeners = {} /\ ~stdinFlowing))
    /\ [][rsResolves = 1 => (rsResolves' = 1 /\ rsResult' = rsResult /\ input' = input)]_vars

\* C17 witness: 'end' resolved the promise before any data, and the timer
\* fired afterwards.
C17_Witness ==
    /\ rsBy = "end" /\ timeout = "fired" /\ rsResolves = 1

\* C18: on a terminal outside the test environment readStdin resolves null
\* at once and registers nothing; otherwise the timer resolves null, and only
\* when no chunk has arrived; once a chunk has arrived the timer is cleared
\* and 'end' resolves with the chunks joined in arrival order and trimmed, or
\* null if that is empty; 'error' resolves null whatever has arrived.
C18_Result ==
    /\ (rsPc = "called" /\ ~testEnv /\ isTTY) =>
          /\ rsResolves = 1 /\ rsResult = NullValue /\ rsBy = "tty"
          /\ stdinListeners = {} /\ ~stdinFlowing /\ timeout = "unset"
    /\ RsListening =>
          /\ rsBy # "tty"
          /\ rsResolves = 0 => (stdinListeners = AllListeners /\ stdinFlowing)
    /\ rsBy = "timer" =>
          /\ rsResult = NullValue
          /\ ~hasData /\ input = <<>> /\ timeout = "fired"
    /\ hasData => (rsBy # "timer" /\ timeout = "cleared")
    /\ rsBy = "end" =>
          rsResult = (IF Trim(Flatten(stdinSeen)) = <<>> THEN NullValue
                      ELSE StringValue(Trim(Flatten(stdinSeen))))
    /\ rsBy = "error" => rsResult = NullValue

\* C18 witness: two different chunks arrived, 'end' resolved with their
\* concatenation, trimmed.
C18_Witness ==
    /\ rsBy = "end" /\ Len(stdinSeen) = 2 /\ stdinSeen[1] # stdinSeen[2]
    /\ ~rsResult.null
    /\ rsResult.text # Flatten(stdinSeen)

\* C19 (as stated): if the timer, once armed, eventually fires, every call
\* of readStdin eventually resolves.
C19_AlwaysTerminates == (rsPc = "called") ~> (rsResolves > 0)

\* C19 (amended): if the timer, once armed, eventually fires, every call of
\* readStdin eventually resolves, unless a chunk arrives before the timer
\* fires and the stream then stays open for ever: then the call stays
\* pending for ever.
C19_TerminatesUnlessOpenWithData ==
    \/ (rsPc = "called") ~> (rsResolves > 0)
    \/ <>[](hasData /\ rsResolves = 0 /\ stdinState = "open" /\ timeout = "cleared")

\* C19 witness: no chunk arrived and the timer resolved the promise.
C19_Witness ==
    /\ rsBy = "timer" /\ rsResolves = 1 /\ stdinSeen = <<>> /\ stdinState = "open"

\* the place in the arrived input of the first chunk that is an answer
IsAnswer(chunk) == chunk \in YesChunks \cup NoChunks
FirstAnswer ==
    IF \E i \in 1..Len(stdinSeen) : IsAnswer(stdinSeen[i])
    THEN CHOOSE i \in 1..Len(stdinSeen) :
            /\ IsAnswer(stdinSeen[i])
            /\ \A j \in 1..(i - 1) : ~IsAnswer(stdinSeen[j])
    ELSE 0

\* C20: in the test environment promptConfirmation returns true and leaves
\* stdin alone; otherwise it resolves at most once, and exactly when an
\* answer has arrived: with true if the first answer is a yes and false if it
\* is a no; every chunk before it has re-issued the prompt, and until it
\* arrives the promise is pending with the listener on; after it the
\* listener is off and stdin paused, so later chunks change nothing.
C20_PromptConfirmation ==
    /\ (pcPc = "called" /\ testEnv) =>
          /\ pcResolves = 1 /\ pcResult = TRUE
          /\ stdinListeners = {} /\ ~stdinFlowing /\ pcPrompts = 0
    /\ (pcPc = "called" /\ ~testEnv) =>
          /\ pcResolves <= 1
          /\ FirstAnswer = 0 =>
                /\ pcResolves = 0
                /\ pcPrompts = 1 + Len(stdinSeen)
                /\ "data" \in stdinListeners /\ stdinFlowing
          /\ FirstAnswer > 0 =>
                /\ pcResolves = 1
                /\ pcResult = (stdinSeen[FirstAnswer] \in YesChunks)
                /\ pcPrompts = FirstAnswer
                /\ stdinListeners = {} /\ ~stdinFlowing

\* C20 witness: an unrecognised chunk, then a no, then a yes: the promise
\* resolved false.
C20_Witness ==
    /\ pcPc = "called" /\ ~testEnv /\ Len(stdinSeen) = 3
    /\ ~IsAnswer(stdinSeen[1])
    /\ stdinSeen[2] \in NoChunks
    /\ stdinSeen[3] \in YesChunks
    /\ pcResolves = 1 /\ pcResult = FALSE /\ pcPrompts = 2

\* ------------------------------------------------ command errors
\* the code and the recoverable flag each of the six subclasses fixes
FixedCode ==
    [ConfigurationError |-> "CONFIG_ERROR", ValidationError |-> "VALIDATION_ERROR",
     ExternalDependencyError |-> "EXTERNAL_DEPENDENCY_ERROR",
     FileOperationError |-> "FILE_OPERATION_ERROR",
     UserCancellationError |-> "USER_CANCELLED",
     PullRequestCheckError |-> "PR_CHECK_FAILED"]
FixedRecoverable ==
    [ConfigurationError |-> FALSE, ValidationError |-> FALSE,
     ExternalDependencyError |-> FALSE, FileOperationError |-> FALSE,
     UserCancellationError |-> TRUE, PullRequestCheckError |-> TRUE]
ErrorBuilt(e) == e.class # "none"
\* a supplied cause is kept under both names
CauseRetained ==
    (ErrorBuilt(errLatest) /\ errCauseArg # Undefined) =>
        /\ errLatest.originalCause = errCauseArg
        /\ errLatest.cause = errCauseArg

\* C21 as stated: any two error objects of the hierarchy that are of the same
\* class carry the same code and the same recoverable flag, the six subclasses
\* carry the listed ones, and a supplied cause is kept as originalCause and cause
C21_ErrorClassification ==
    /\ (ErrorBuilt(errLatest) /\ ErrorBuilt(errPrevious)
            /\ errLatest.class = errPrevious.class) =>
        /\ errLatest.code = errPrevious.code
        /\ errLatest.recoverable = errPrevious.recoverable
    /\ errLatest.class \in DOMAIN FixedCode =>
        /\ errLatest.code = FixedCode[errLatest.class]
        /\ errLatest.recoverable = FixedRecoverable[errLatest.class]
    /\ CauseRetained

\* C21 amended: an error object built by one of the six subclasses carries the
\* code and recoverable flag of its class, whatever its other arguments (so
\* two objects of one subclass agree on both); a supplied cause is kept as
\* originalCause and cause by every class, the base class included, whose
\* code and flag are its caller's
C21_ErrorClassificationAmended ==
    /\ errLatest.class \in DOMAIN FixedCode =>
        /\ errLatest.code = FixedCode[errLatest.class]
        /\ errLatest.recoverable = FixedRecoverable[errLatest.class]
        /\ errLatest.name = errLatest.class
    /\ (errLatest.class \in DOMAIN FixedCode /\ errLatest.class = errPrevious.class) =>
        /\ errLatest.code = errPrevious.code
        /\ errLatest.recoverable = errPrevious.recoverable
    /\ CauseRetained
C21_Witness ==
    /\ errLatest.class = "FileOperationError" /\ errPrevious.class = "FileOperationError"
    /\ errLatest.message # errPrevious.message
    /\ errCauseArg = "E1" /\ errLatest.cause = "E1" /\ errLatest.originalCause = "E1"
    /\ errPrevious.cause = Undefined

\* ------------------------------------------------ validation helpers
Validators ==
    {"validateString", "validateNumber", "validateBoolean", "validateArray",
     "validateObject", "validateNonEmptyString", "validateEnum"}
\* the result of validate answers the outcome of schema.parse
ValidateMirrorsParse ==
    vLast.fn = "validate" =>
        LET parsed == Parse(vLast.schema, vLast.value)
        IN  /\ vLast.success = parsed.returns
            /\ parsed.returns => vLast.result = parsed.value
\* a single-type validator returns its argument or raises
ValidatorsReturnInput ==
    vLast.fn \in Validators => (vLast.raised \/ vLast.result = vLast.value)

\* C22: validate never raises: it returns {success: true, data: v} exactly
\* when schema.parse(data) returns v and {success: false, error: text} with a
\* text when it fails; the single-type validators return their input value
\* unchanged or raise
C22_ValidateNeverRaises ==
    /\ vLast.fn = "validate" => ~vLast.raised
    /\ ValidateMirrorsParse
    /\ (vLast.fn = "validate" /\ ~vLast.success) => vLast.error # <<>>
    /\ ValidatorsReturnInput
====
